---- MODULE Spec2Model ----
(***************************************************************************)
(* Model of typeorm-simple-history (src/src/index.ts): the registration    *)
(* table of HistoryModule, the beforeUpdate subscriber that diffs an       *)
(* update and saves a History Entry, getHistoryRepository and hydrate.     *)
(***************************************************************************)
EXTENDS Integers, Sequences, FiniteSets, TLC

(***************************************************************************)
(* JavaScript values.  A value is a number, undefined, null or an object;  *)
(* an object has an identity (ref) and own enumerable properties (f).      *)
(***************************************************************************)
Num(n) == [n |-> n, t |-> "num"]

Undef == [t |-> "undef"]

Null == [t |-> "null"]

Obj(r, f) == [t |-> "obj", f |-> f, ref |-> r]

NoProps == [k \in {} |-> Undef]

\* Identity of an object created by the code under study (a literal, a spread).
FreshRef == "fresh"

\* Identity of an object materialised by the persistence layer (a loaded row).
LoadedRef == "loaded"

\* Identity of an object built by the caller of an update.
CallerRef == "caller"

IsObject(v) == v.t = "obj"

Keys(v) == IF IsObject(v) THEN DOMAIN v.f ELSE {}

\* lhs === rhs: primitives by value, objects by identity.
StrictEq(l, r) == IF IsObject(l) /\ IsObject(r) THEN l.ref = r.ref ELSE l = r

\* x || {} : undefined and null are falsy.
OrEmpty(x) == IF x.t \in {"undef", "null"} THEN Obj(FreshRef, NoProps) ELSE x

\* obj.k : a missing property (or a property of a non-object) reads undefined.
Get(v, k) == IF k \in Keys(v) THEN v.f[k] ELSE Undef

\* { ...a, ...b } on property maps: b wins on a shared key.
Spread(a, b) == [k \in (DOMAIN a) \cup (DOMAIN b) |-> IF k \in DOMAIN b THEN b[k] ELSE a[k]]

\* Variant: the test on Object.keys(passedObj).length is left out.
isEmptyObjWithoutKeys(passedObj) == ~IsObject(passedObj)

isEmptyObj(passedObj) == ~(IsObject(passedObj) /\ Keys(passedObj) # {})

\* deep-object-diff's own emptiness test: an object without keys.
IsEmptyObject(v) == IsObject(v) /\ Keys(v) = {}

RECURSIVE deepDiffLib(_, _)
\* diff(lhs, rhs) of deep-object-diff: the keys of rhs that were added or
\* updated, with the value found in rhs, and the keys only lhs has, mapped to
\* undefined.
deepDiffLib(lhs, rhs) ==
    IF StrictEq(lhs, rhs) THEN Obj(FreshRef, NoProps)
    ELSE IF ~IsObject(lhs) \/ ~IsObject(rhs) THEN rhs
    ELSE LET sub == [k \in Keys(lhs) \cap Keys(rhs) |-> deepDiffLib(lhs.f[k], rhs.f[k])]
             same == {k \in Keys(lhs) \cap Keys(rhs) :
                         /\ IsEmptyObject(sub[k])
                         /\ (IsEmptyObject(lhs.f[k]) \/ ~IsEmptyObject(rhs.f[k]))}
             keys == (Keys(lhs) \cup Keys(rhs)) \ same
         IN Obj(FreshRef,
                [k \in keys |-> IF k \notin Keys(rhs) THEN Undef
                                ELSE IF k \notin Keys(lhs) THEN rhs.f[k]
                                ELSE sub[k]])

RECURSIVE simpleJson(_)
\* A 'simple-json' column stores JSON.stringify(value) and reads it back with
\* JSON.parse: properties holding undefined are dropped, identities are lost.
simpleJson(v) ==
    IF ~IsObject(v) THEN v
    ELSE LET kept == {k \in Keys(v) : v.f[k] # Undef}
         IN Obj(LoadedRef, [k \in kept |-> simpleJson(v.f[k])])

(***************************************************************************)
(* Class names and String.prototype.toLocaleLowerCase.                     *)
(***************************************************************************)
LowerChar(c) ==
    CASE c = "U" -> "u"
      [] c = "S" -> "s"
      [] c = "E" -> "e"
      [] c = "R" -> "r"
      [] c = "P" -> "p"
      [] OTHER -> c

toLocaleLowerCase(s) == [i \in DOMAIN s |-> LowerChar(s[i])]

\* `${entityName}_history`
HistoryName(entityName) == entityName \o <<"_", "history">>

(***************************************************************************)
(* Bounds and input sets.                                                  *)
(***************************************************************************)
\* Number of update operations the host starts in one behaviour.
MaxUpdates == 2

\* Number of registrations (TrackHistory / trackHistory calls).
MaxEntries == 2

User == [cid |-> "c1", name |-> <<"U", "s", "e", "r">>]

UpperUser == [cid |-> "c2", name |-> <<"U", "S", "E", "R">>]

Post == [cid |-> "c3", name |-> <<"P", "o", "s", "t">>]

\* The record types (classes) of the host application.
Classes == {User, UpperUser, Post}

\* Strings a caller may pass to getHistoryRepository instead of a class.
NameArgs == {<<"u", "s", "e", "r">>, <<"U", "s", "e", "r">>, <<"p", "o", "s", "t">>}

\* The rows of the host's tables of tracked records: a class and an id.
Records == {[cls |-> User, id |-> 1], [cls |-> User, id |-> 2]}

Tables == {HistoryName(toLocaleLowerCase(c.name)) : c \in Classes}

\* The state a tracked record with identifier id is created with.
Created(id) == Obj(LoadedRef, [a |-> Num(1), id |-> Num(id)])

\* What a caller may hand to an update of the record with identifier id.
Incoming(id) == {Obj(CallerRef, [a |-> Num(n), id |-> Num(id)]) : n \in 1..2}

\* queryRunner.data of an update: with or without a historyDetails annotation.
Annotation(n) == Obj(CallerRef, [editor |-> Num(n)])

QueryData == {Obj(CallerRef, NoProps), Obj(CallerRef, [historyDetails |-> Annotation(1)])}

Ops == 1..MaxUpdates

(***************************************************************************)
(* State.                                                                  *)
(***************************************************************************)
VARIABLES
    entries,      \* HistoryModule.entries: the registration table
    config,       \* HistoryModule.config: Undef until setup is called
    connection,   \* the subscribers the host's connection was built with
    db,           \* the host's tracked records: Records -> state or Undef
    store,        \* the history tables: Tables -> sequence of rows
    clock,        \* the persistence layer's clock (createdAt)
    ops,          \* the update operations of the host, one event each
    hooks,        \* per update, per subscriber: the beforeUpdate invocation
    ret           \* what the last call of the module's API returned or threw

vars == <<entries, config, connection, db, store, clock, ops, hooks, ret>>

\* The Config object of the host: { getRepository }.
HostConfig == Obj(CallerRef, [getRepository |-> [t |-> "fn", name |-> "getRepository"]])

IdleOp == [pc |-> "idle"]

NotCalled == [promise |-> "notCalled", write |-> "none", saves |-> 0]

NoCall == [op |-> "none"]

Init ==
    /\ entries = <<>>
    /\ config = Undef
    /\ connection = Undef
    /\ db = [r \in Records |-> Undef]
    /\ store = [tb \in Tables |-> <<>>]
    /\ clock = 1
    /\ ops = [o \in Ops |-> IdleOp]
    /\ hooks = [o \in Ops |-> <<>>]
    /\ ret = NoCall

(***************************************************************************)
(* setup, registration, getEntities, getSubscribers.                       *)
(***************************************************************************)
setup(cfg) ==
    /\ config' = cfg
    /\ ret' = NoCall
    /\ UNCHANGED <<entries, connection, db, store, clock, ops, hooks>>

\* The entry made for entityClass; serial tells apart the classes that two
\* calls create (each call declares MyHistoryEntity and MyEntitySubscriber anew).
createHistoryEntityAndSubscriber(entityClass, serial) ==
    LET entityName == toLocaleLowerCase(entityClass.name)
        historyEntityName == HistoryName(entityName)
    IN [name |-> entityName,
        entity |-> [serial |-> serial, kind |-> "MyHistoryEntity",
                    table |-> historyEntityName, origin |-> entityClass],
        subscriber |-> [serial |-> serial, historyEntityName |-> historyEntityName,
                        kind |-> "MyEntitySubscriber", listenTo |-> entityClass]]

Push(list, entry) == Append(list, entry)

\* @TrackHistory() applied to target.
TrackHistory(target) ==
    /\ entries' = Push(entries, createHistoryEntityAndSubscriber(target, Len(entries) + 1))
    /\ ret' = NoCall
    /\ UNCHANGED <<config, connection, db, store, clock, ops, hooks>>

trackHistory(MyEntity) ==
    /\ entries' = Push(entries, createHistoryEntityAndSubscriber(MyEntity, Len(entries) + 1))
    /\ ret' = NoCall
    /\ UNCHANGED <<config, connection, db, store, clock, ops, hooks>>

getEntities == [i \in DOMAIN entries |-> entries[i].entity]

getSubscribers == [i \in DOMAIN entries |-> entries[i].subscriber]

\* The host builds its connection from getEntities() and getSubscribers().
Connect ==
    /\ connection = Undef
    /\ connection' = [entities |-> getEntities, subscribers |-> getSubscribers]
    /\ ret' = NoCall
    /\ UNCHANGED <<entries, config, db, store, clock, ops, hooks>>

(***************************************************************************)
(* getHistoryRepository.                                                   *)
(***************************************************************************)
\* Variant: the repository factory of the configuration is read first.
HistoryRepositoryOfConfigFirst(entityClass) ==
    LET entityName == toLocaleLowerCase(IF entityClass \in Classes THEN entityClass.name
                                        ELSE entityClass)
        hits == {i \in DOMAIN entries : entries[i].name = entityName}
    IN IF config = Undef
       THEN [throws |-> [t |-> "TypeError", message |-> "config is undefined"]]
       ELSE IF hits = {}
       THEN [throws |-> [t |-> "Error",
                         message |-> "Provided entity is not registered for history tracking"]]
       ELSE [returns |-> [t |-> "Repository",
                          target |-> entries[CHOOSE i \in hits : \A j \in hits : i <= j].entity]]

\* typeof entityClass === 'function' ? entityClass.name : entityClass
NameOfArg(entityClass) == IF entityClass \in Classes THEN entityClass.name ELSE entityClass

\* entries.find((e) => e.name === entityName)?.entity
FindEntity(entityName) ==
    LET hits == {i \in DOMAIN entries : entries[i].name = entityName}
    IN IF hits = {} THEN Undef
       ELSE entries[CHOOSE i \in hits : \A j \in hits : i <= j].entity

NotRegistered == [t |-> "Error", message |-> "Provided entity is not registered for history tracking"]

TypeErrorOfConfig == [t |-> "TypeError", message |-> "config is undefined"]

\* The outcome of getHistoryRepository(entityClass): a repository or a throw.
HistoryRepositoryOf(entityClass) ==
    LET entityName == toLocaleLowerCase(NameOfArg(entityClass))
        entity == FindEntity(entityName)
    IN IF entity = Undef THEN [throws |-> NotRegistered]
       ELSE IF config = Undef THEN [throws |-> TypeErrorOfConfig]
       ELSE [returns |-> [t |-> "Repository", target |-> entity]]

getHistoryRepository(entityClass) ==
    /\ ret' = [op |-> "getHistoryRepository", arg |-> entityClass,
               out |-> HistoryRepositoryOf(entityClass)]
    /\ UNCHANGED <<entries, config, connection, db, store, clock, ops, hooks>>

(***************************************************************************)
(* MyEntitySubscriber.beforeUpdate and the save it awaits.                 *)
(***************************************************************************)
\* Variant: the fields are compared with ===, nested values by identity.
ComputeDiffByIdentity(newEntity, oldEntity) ==
    Obj(FreshRef,
        [k \in {f \in Keys(newEntity) \cup Keys(oldEntity) :
                   ~(f \in Keys(newEntity) /\ f \in Keys(oldEntity)
                       /\ StrictEq(newEntity.f[f], oldEntity.f[f]))}
         |-> Get(oldEntity, k)])

\* Variant: deepDiff(oldEntity, newEntity).
ComputeDiffOldFirst(newEntity, oldEntity) == deepDiffLib(oldEntity, newEntity)

\* const diff = deepDiff(newEntity, oldEntity)
ComputeDiff(newEntity, oldEntity) == deepDiffLib(newEntity, oldEntity)

\* Variant: historyDetails is not handed to create().
CreateDataWithoutDetails(oldEntity, diff, historyDetails) ==
    [historyDetails |-> Undef, origin |-> Get(oldEntity, "id"), diff |-> diff]

\* historyRepository.create({ origin: oldEntity.id, diff, historyDetails })
CreateData(oldEntity, diff, historyDetails) ==
    [historyDetails |-> historyDetails, origin |-> Get(oldEntity, "id"), diff |-> diff]

\* const { historyDetails } = event.queryRunner.data
DetailsOf(event) == Get(event.queryRunner.data, "historyDetails")

\* Variant: the save is started but not awaited, the invocation returns at once.
beforeUpdateCallNoAwait(event, cfg, historyEntityName) ==
    LET newEntity == OrEmpty(event.entity)
        oldEntity == OrEmpty(event.databaseEntity)
        historyDetails == Get(event.queryRunner.data, "historyDetails")
        diff == deepDiffLib(newEntity, oldEntity)
    IN IF ~(IsObject(diff) /\ Keys(diff) # {})
       THEN [promise |-> "resolved", write |-> "none", saves |-> 0, diff |-> diff,
             event |-> event]
       ELSE IF cfg = Undef
       THEN [promise |-> "rejected", write |-> "none", saves |-> 0, diff |-> diff,
             event |-> event, error |-> [t |-> "TypeError", message |-> "config is undefined"]]
       ELSE [promise |-> "resolved", write |-> "pending", saves |-> 1, table |-> historyEntityName,
             diff |-> diff,
             event |-> event,
             data |-> [historyDetails |-> historyDetails, origin |-> Get(oldEntity, "id"),
                       diff |-> diff]]

\* Variant: the annotation of the update is written into the incoming entity.
beforeUpdateCallStamping(event, cfg, historyEntityName) ==
    LET newEntity == OrEmpty(event.entity)
        oldEntity == OrEmpty(event.databaseEntity)
        historyDetails == Get(event.queryRunner.data, "historyDetails")
        diff == deepDiffLib(newEntity, oldEntity)
        stamped == [event EXCEPT !.entity =
                       Obj(newEntity.ref, Spread(newEntity.f, [touched |-> historyDetails]))]
    IN IF ~(IsObject(diff) /\ Keys(diff) # {})
       THEN [promise |-> "resolved", write |-> "none", saves |-> 0, diff |-> diff,
             event |-> stamped]
       ELSE IF cfg = Undef
       THEN [promise |-> "rejected", write |-> "none", saves |-> 0, diff |-> diff,
             event |-> stamped, error |-> [t |-> "TypeError", message |-> "config is undefined"]]
       ELSE [promise |-> "pending", write |-> "pending", saves |-> 1, table |-> historyEntityName,
             diff |-> diff,
             event |-> stamped,
             data |-> [historyDetails |-> historyDetails, origin |-> Get(oldEntity, "id"),
                       diff |-> diff]]

\* The invocation after the synchronous part of beforeUpdate(event), up to
\* its await: settled at once, or waiting for the save it started.  event is
\* the event object as the invocation leaves it: no statement writes to it or
\* to the entities it holds.
beforeUpdateCall(event, cfg, historyEntityName) ==
    LET newEntity == OrEmpty(event.entity)
        oldEntity == OrEmpty(event.databaseEntity)
        historyDetails == DetailsOf(event)
        diff == ComputeDiff(newEntity, oldEntity)
    IN IF isEmptyObj(diff)
       THEN [promise |-> "resolved", write |-> "none", saves |-> 0, diff |-> diff,
             event |-> event]
       ELSE IF cfg = Undef
       THEN [promise |-> "rejected", write |-> "none", saves |-> 0, diff |-> diff,
             event |-> event, error |-> TypeErrorOfConfig]
       ELSE [promise |-> "pending", write |-> "pending", saves |-> 1, table |-> historyEntityName,
             diff |-> diff,
             event |-> event, data |-> CreateData(oldEntity, diff, historyDetails)]

\* The row the persistence layer inserts for data: a generated id, the diff
\* and the annotation as 'simple-json' (default null), createdAt from its clock.
RowOf(data, id, now) ==
    [id |-> Num(id),
     historyDetails |-> IF data.historyDetails = Undef THEN Null
                        ELSE simpleJson(data.historyDetails),
     origin |-> IF data.origin = Undef THEN Null ELSE data.origin,
     diff |-> simpleJson(data.diff),
     createdAt |-> [n |-> now, t |-> "date"]]

PersistenceError == [t |-> "QueryFailedError", message |-> "insert failed"]

\* Variant: the error of the save is caught and dropped.
SettledSwallowing(h, outcome) ==
    IF outcome = "failed"
    THEN [h EXCEPT !.write = "failed", !.promise = "resolved"]
    ELSE [h EXCEPT !.write = "done", !.promise = "resolved"]

\* await historyRepository.save(data), once the save has settled: the
\* invocation resumes and returns, or throws the error of the save.
Settled(h, outcome) ==
    IF outcome = "failed"
    THEN [h EXCEPT !.write = "failed", !.promise = "rejected"] @@ [error |-> PersistenceError]
    ELSE [h EXCEPT !.write = "done", !.promise = "resolved"]

\* Variant: the save writes over the newest row instead of inserting one.
SaveOkOverwriting(o, i) ==
    /\ hooks[o][i].write = "pending"
    /\ LET tb == hooks[o][i].table
           id == IF store[tb] = <<>> THEN 1 ELSE Len(store[tb])
       IN /\ store' = [store EXCEPT ![tb] =
                          SubSeq(@, 1, id - 1) \o <<RowOf(hooks[o][i].data, id, clock)>>]
          /\ hooks' = [hooks EXCEPT ![o][i] = Settled(@, "done") @@ [rowId |-> id]]
    /\ clock' = clock + 1
    /\ ret' = NoCall
    /\ UNCHANGED <<entries, config, connection, db, ops>>

\* historyRepository.save(data) succeeds.
SaveOk(o, i) ==
    /\ hooks[o][i].write = "pending"
    /\ LET tb == hooks[o][i].table
           id == Len(store[tb]) + 1
       IN /\ store' = [store EXCEPT ![tb] = Append(@, RowOf(hooks[o][i].data, id, clock))]
          /\ hooks' = [hooks EXCEPT ![o][i] = Settled(@, "done") @@ [rowId |-> id]]
    /\ clock' = clock + 1
    /\ ret' = NoCall
    /\ UNCHANGED <<entries, config, connection, db, ops>>

\* historyRepository.save(data) fails.
SaveFail(o, i) ==
    /\ hooks[o][i].write = "pending"
    /\ hooks' = [hooks EXCEPT ![o][i] = Settled(@, "failed")]
    /\ ret' = NoCall
    /\ UNCHANGED <<entries, config, connection, db, store, clock, ops>>

(***************************************************************************)
(* The host: tracked records and their update operations.                  *)
(***************************************************************************)
\* A record is created once; the identifier of a removed record (Null) is
\* not given to another one.
InsertRecord(rec, st) ==
    /\ db[rec] = Undef
    /\ db' = [db EXCEPT ![rec] = st]
    /\ ret' = NoCall
    /\ UNCHANGED <<entries, config, connection, store, clock, ops, hooks>>

RemoveRecord(rec) ==
    /\ IsObject(db[rec])
    /\ db' = [db EXCEPT ![rec] = Null]
    /\ ret' = NoCall
    /\ UNCHANGED <<entries, config, connection, store, clock, ops, hooks>>

\* The subscribers of the connection the host calls for an update of cls.
Listening(cls) ==
    IF connection = Undef THEN {}
    ELSE {i \in DOMAIN connection.subscribers : connection.subscribers[i].listenTo = cls}

UpdateEvent(entity, databaseEntity, data) ==
    [entity |-> entity, queryRunner |-> [data |-> data], databaseEntity |-> databaseEntity]

\* The host broadcasts beforeUpdate: it calls every listening subscriber
\* with the event and collects the promises.
Broadcast(cls, event) ==
    [i \in DOMAIN connection.subscribers |->
        IF i \in Listening(cls)
        THEN beforeUpdateCall(event, config, connection.subscribers[i].historyEntityName)
        ELSE NotCalled]

\* repository.save(entity, { data }): the host has loaded databaseEntity and
\* broadcasts beforeUpdate before it executes the update.
BeginUpdate(o, cls, id, entity, databaseEntity, data) ==
    /\ connection # Undef
    /\ ops[o].pc = "idle"
    /\ ops' = [ops EXCEPT ![o] = [cls |-> cls, id |-> id, pc |-> "broadcast", entity |-> entity,
                                   data |-> data, databaseEntity |-> databaseEntity]]
    /\ hooks' = [hooks EXCEPT ![o] =
                    Broadcast(cls, UpdateEvent(entity, databaseEntity, data))]
    /\ ret' = NoCall
    /\ UNCHANGED <<entries, config, connection, db, store, clock>>

\* An update of an existing record of the host's table.
UpdateRecord(o, rec, entity, data) ==
    /\ IsObject(db[rec])
    /\ BeginUpdate(o, rec.cls, rec.id, entity, db[rec], data)

\* The state a record holds once an update with the given entity is executed.
Updated(old, entity) ==
    IF ~IsObject(old) \/ ~IsObject(entity) THEN old
    ELSE Obj(LoadedRef, Spread(old.f, simpleJson(entity).f))

RecordOf(o) == [cls |-> ops[o].cls, id |-> ops[o].id]

\* Every listening subscriber's promise resolved: the host executes the update.
Commit(o) ==
    /\ ops[o].pc = "broadcast"
    /\ \A i \in Listening(ops[o].cls) : hooks[o][i].promise = "resolved"
    /\ ops' = [ops EXCEPT ![o].pc = "committed"]
    /\ db' = [r \in Records |-> IF r = RecordOf(o) THEN Updated(db[r], ops[o].entity) ELSE db[r]]
    /\ ret' = NoCall
    /\ UNCHANGED <<entries, config, connection, store, clock, hooks>>

\* A subscriber's promise rejected: the update fails with that error.
Fail(o) ==
    /\ ops[o].pc = "broadcast"
    /\ \E i \in Listening(ops[o].cls) :
          /\ hooks[o][i].promise = "rejected"
          /\ ops' = [ops EXCEPT ![o] = [@ EXCEPT !.pc = "failed"] @@ [error |-> hooks[o][i].error]]
    /\ ret' = NoCall
    /\ UNCHANGED <<entries, config, connection, db, store, clock, hooks>>

(***************************************************************************)
(* hydrate.                                                                *)
(***************************************************************************)
PropsOf(v) == IF IsObject(v) THEN v.f ELSE NoProps

\* Variant: the diff is spread after id, historyDetails and createdAt.
NextPivotDiffLast(pivot, h) ==
    Spread(Spread(pivot, [id |-> h.id, historyDetails |-> h.historyDetails,
                          createdAt |-> h.createdAt]),
           PropsOf(h.diff))

\* pivot = { ...pivot, ...diff, id, historyDetails, createdAt }
NextPivot(pivot, h) ==
    Spread(Spread(pivot, PropsOf(h.diff)),
           [id |-> h.id, historyDetails |-> h.historyDetails, createdAt |-> h.createdAt])

RECURSIVE hydrateMap(_, _)
\* history.map(...) with the running pivot.
hydrateMap(pivot, history) ==
    IF history = <<>> THEN <<>>
    ELSE LET p == NextPivot(pivot, Head(history))
         IN <<p>> \o hydrateMap(p, Tail(history))

\* Object.assign({ originId: current.id }, current)
FirstPivot(current) == Spread([originId |-> Get(current, "id")], PropsOf(current))

hydrate(current, history) == hydrateMap(FirstPivot(current), history)

\* historyRepository.find({ where: { origin } }): the rows of one origin.
RECURSIVE FindByOrigin(_, _)
FindByOrigin(rows, origin) ==
    IF rows = <<>> THEN <<>>
    ELSE (IF Head(rows).origin = origin THEN <<Head(rows)>> ELSE <<>>)
             \o FindByOrigin(Tail(rows), origin)

HistoryOf(rec) ==
    FindByOrigin(store[HistoryName(toLocaleLowerCase(rec.cls.name))], Num(rec.id))

(***************************************************************************)
(* hydrate on the objects it is handed.  The heap maps the address of an   *)
(* object to its properties: current, every History Entry and every diff   *)
(* are objects of the caller, and the call creates objects of its own.     *)
(***************************************************************************)
CurrentAt == <<"current", 0>>

EntryAt(i) == <<"entry", i>>

DiffAt(i) == <<"diff", i>>

\* The objects of the caller when hydrate(current, history) is called.
ArgsHeap(current, history) ==
    [at \in {CurrentAt} \cup {EntryAt(i) : i \in DOMAIN history}
                        \cup {DiffAt(i) : i \in DOMAIN history} |->
        IF at = CurrentAt THEN PropsOf(current)
        ELSE IF at[1] = "entry" THEN [history[at[2]] EXCEPT !.diff = DiffAt(at[2])]
        ELSE PropsOf(history[at[2]].diff)]

\* The address of the next object created.
Alloc(heap) == <<"new", Cardinality(DOMAIN heap)>>

\* An object literal: a new object with the given properties.
New(heap, props) ==
    [at \in DOMAIN heap \cup {Alloc(heap)} |-> IF at \in DOMAIN heap THEN heap[at] ELSE props]

\* Object.assign(target, source): the properties of source are written into
\* target, which is returned.
ObjectAssign(heap, target, source) == [heap EXCEPT ![target] = Spread(@, heap[source])]

\* Variant: Object.assign(current, { originId: current.id }).
pivotAssignedIntoCurrent(heap) ==
    LET literal == Alloc(heap)
        made == New(heap, [originId |-> IF "id" \in DOMAIN heap[CurrentAt]
                                        THEN heap[CurrentAt]["id"] ELSE Undef])
    IN [pivot |-> CurrentAt, heap |-> ObjectAssign(made, CurrentAt, literal)]

\* let pivot = Object.assign({ originId: current.id }, current)
pivotOfCurrent(heap) ==
    LET literal == Alloc(heap)
        made == New(heap, [originId |-> IF "id" \in DOMAIN heap[CurrentAt]
                                        THEN heap[CurrentAt]["id"] ELSE Undef])
    IN [pivot |-> literal, heap |-> ObjectAssign(made, literal, CurrentAt)]

RECURSIVE mapHistory(_, _, _, _)
\* history.map(({ id, diff, historyDetails, createdAt }) => { pivot = {...}; return pivot; })
\* from the i-th of n entries on: every element returned is a new object.
mapHistory(heap, pivot, i, n) ==
    IF i > n THEN [heap |-> heap, refs |-> <<>>]
    ELSE LET entry == heap[EntryAt(i)]
             props == NextPivot(heap[pivot],
                                [entry EXCEPT !.diff = Obj(LoadedRef, heap[entry.diff])])
             made == Alloc(heap)
             rest == mapHistory(New(heap, props), made, i + 1, n)
         IN [heap |-> rest.heap, refs |-> <<made>> \o rest.refs]

\* hydrate run on the heap with n History Entries: the heap it leaves and the
\* addresses of the snapshots it returns.
hydrateOnHeap(heap, n) ==
    LET first == pivotOfCurrent(heap)
    IN mapHistory(first.heap, first.pivot, 1, n)

\* A call hydrate(current, history): what it returns, and the heap the call
\* leaves; the objects of the caller before it are ArgsHeap(current, history).
hydrateCall(current, history) ==
    /\ ret' = LET run == hydrateOnHeap(ArgsHeap(current, history), Len(history))
              IN [op |-> "hydrate", out |-> hydrate(current, history), history |-> history,
                  current |-> current, heap |-> run.heap, refs |-> run.refs]
    /\ UNCHANGED <<entries, config, connection, db, store, clock, ops, hooks>>

\* hydrate(user, userHistory) on a record and the history found for it.
hydrateRecord(rec) ==
    /\ IsObject(db[rec])
    /\ hydrateCall(db[rec], HistoryOf(rec))

(***************************************************************************)
(* The specifications.                                                     *)
(***************************************************************************)
\* entityClass was given to TrackHistory or trackHistory.
Registered(entityClass) == \E i \in DOMAIN entries : entries[i].subscriber.listenTo = entityClass

\* The next unused update operation.
NextOp(o) == ops[o].pc = "idle" /\ \A p \in Ops : p < o => ops[p].pc # "idle"

\* The steps of the subscribers and of the host that follow BeginUpdate.
UpdateSteps ==
    \/ \E o \in Ops : \E i \in DOMAIN hooks[o] : SaveOk(o, i)
    \/ \E o \in Ops : \E i \in DOMAIN hooks[o] : SaveFail(o, i)
    \/ \E o \in Ops : Commit(o)
    \/ \E o \in Ops : Fail(o)

\* The documented life cycle of an application with one tracked type: User is
\* registered at start-up, once, before the host builds its connection;
\* updates of its records, lookups and hydrate follow.  getHistoryRepository
\* and hydrate are synchronous: the caller has the result (Returned) before
\* any other step is taken.
Returned ==
    /\ ret # NoCall
    /\ ret' = NoCall
    /\ UNCHANGED <<entries, config, connection, db, store, clock, ops, hooks>>

Next ==
    \/ Returned
    \/ ret = NoCall /\ setup(HostConfig)
    \/ ret = NoCall /\ connection = Undef /\ ~Registered(User) /\ TrackHistory(User)
    \/ ret = NoCall /\ connection = Undef /\ ~Registered(User) /\ trackHistory(User)
    \/ ret = NoCall /\ Registered(User) /\ Connect
    \/ ret = NoCall /\ getHistoryRepository(User)
    \/ ret = NoCall /\ \E rec \in Records : InsertRecord(rec, Created(rec.id))
    \/ ret = NoCall /\ \E rec \in Records : RemoveRecord(rec)
    \/ ret = NoCall /\ \E o \in Ops :
          /\ NextOp(o)
          /\ \E rec \in Records, data \in QueryData :
                \E entity \in Incoming(rec.id) : UpdateRecord(o, rec, entity, data)
    \/ ret = NoCall /\ UpdateSteps
    \/ ret = NoCall /\ \E rec \in Records : hydrateRecord(rec)

Spec == Init /\ [][Next]_vars

(***************************************************************************)
(* SpecDiff: beforeUpdate on the previous and incoming states a host may   *)
(* hand over, whole or partial, flat or nested, present or absent.         *)
(***************************************************************************)
\* The numbers a field may hold.
MaxNum == 3

\* A nested value: an object of the given identity, empty or with one field.
Nested(r) == {Obj(r, NoProps)} \cup {Obj(r, [x |-> Num(n)]) : n \in 1..2}

Absent == [t |-> "absent"]

\* An entity object of identity r with the given id, a and b, each one
\* possibly absent.
Entity(r, id, a, b) ==
    Obj(r, [k \in {f \in {"id", "a", "b"} :
                     \/ f = "id" /\ id # Absent
                     \/ f = "a" /\ a # Absent
                     \/ f = "b" /\ b # Absent}
            |-> IF k = "id" THEN id ELSE IF k = "a" THEN a ELSE b])

\* event.databaseEntity: nothing, an object without fields, or a loaded row.
RichPrevious ==
    {Undef, Obj(LoadedRef, NoProps)} \cup
    {Entity(LoadedRef, Num(1), a, b) :
        a \in {Absent} \cup {Num(n) : n \in 1..2} \cup Nested(LoadedRef),
        b \in {Absent} \cup {Num(n) : n \in 1..MaxNum}}

\* event.entity: nothing, or the object of the caller, which may hold a nested
\* object of its own or the very object of the loaded row.
RichIncoming ==
    {Undef} \cup
    {Entity(CallerRef, id, a, b) :
        id \in {Absent, Num(1)},
        a \in {Absent} \cup {Num(n) : n \in 1..2} \cup Nested(LoadedRef) \cup Nested(CallerRef),
        b \in {Absent} \cup {Num(n) : n \in 1..MaxNum}}

\* One identity is one object: a nested object of the caller that is the
\* loaded row's own has the content it has there.
Coherent(entity, databaseEntity) ==
    \A k \in Keys(entity) \cap Keys(databaseEntity) :
        (IsObject(entity.f[k]) /\ IsObject(databaseEntity.f[k])
           /\ entity.f[k].ref = databaseEntity.f[k].ref) => entity.f[k] = databaseEntity.f[k]

NextDiff ==
    \/ setup(HostConfig)
    \/ ~Registered(User) /\ connection = Undef /\ trackHistory(User)
    \/ Registered(User) /\ Connect
    \/ /\ connection # Undef
       /\ ops[1].pc = "idle"
       /\ \E entity \in RichIncoming, databaseEntity \in RichPrevious, data \in QueryData :
             /\ Coherent(entity, databaseEntity)
             /\ BeginUpdate(1, User, 1, entity, databaseEntity, data)
    \/ \E i \in DOMAIN hooks[1] : SaveOk(1, i)
    \/ \E i \in DOMAIN hooks[1] : SaveFail(1, i)
    \/ Commit(1)
    \/ Fail(1)

SpecDiff == Init /\ [][NextDiff]_vars

(***************************************************************************)
(* SpecHydrate: one call of hydrate on a current record and a history, of  *)
(* any origin and in any order, whose diffs may hold any key.              *)
(***************************************************************************)
\* Length of the history handed to hydrate.
MaxHistory == 2

HydrateCurrents ==
    {Obj(LoadedRef, [a |-> Num(1), b |-> Num(1), id |-> Num(1)]),
     Obj(LoadedRef, [a |-> Num(2), id |-> Num(2)]),
     Obj(LoadedRef, [a |-> Num(1), id |-> Num(1), originId |-> Num(7)])}

HydrateDiffs ==
    {Obj(LoadedRef, NoProps),
     Obj(LoadedRef, [a |-> Num(2)]),
     Obj(LoadedRef, [a |-> Num(3), b |-> Num(2)]),
     Obj(LoadedRef, [a |-> Num(2), id |-> Num(9)]),
     Obj(LoadedRef, [c |-> Num(1), historyDetails |-> Num(9), createdAt |-> Num(9),
                     originId |-> Num(9)])}

HydrateEntries ==
    {[id |-> Num(n), historyDetails |-> hd, origin |-> Num(1), diff |-> d,
      createdAt |-> [n |-> at, t |-> "date"]] :
        n \in 1..2, d \in HydrateDiffs, hd \in {Null, simpleJson(Annotation(1))}, at \in 1..2}

HydrateHistories == UNION {[1..n -> HydrateEntries] : n \in 0..MaxHistory}

NextHydrate ==
    /\ ret = NoCall
    /\ \E current \in HydrateCurrents, history \in HydrateHistories :
          hydrateCall(current, history)

SpecHydrate == Init /\ [][NextHydrate]_vars

(***************************************************************************)
(* SpecRegistry: setup, registrations of any type, any number of times and *)
(* at any time, lookups by class and by name, and one update of a record.  *)
(***************************************************************************)
FirstUser == [cls |-> User, id |-> 1]

NextRegistry ==
    \/ setup(HostConfig)
    \/ \E c \in Classes : Len(entries) < MaxEntries /\ TrackHistory(c)
    \/ \E c \in Classes : Len(entries) < MaxEntries /\ trackHistory(c)
    \/ Connect
    \/ \E x \in Classes \cup NameArgs : getHistoryRepository(x)
    \/ InsertRecord(FirstUser, Created(1))
    \/ \E entity \in Incoming(1), data \in QueryData : UpdateRecord(1, FirstUser, entity, data)
    \/ \E i \in DOMAIN hooks[1] : SaveOk(1, i)
    \/ \E i \in DOMAIN hooks[1] : SaveFail(1, i)
    \/ Commit(1)
    \/ Fail(1)

SpecRegistry == Init /\ [][NextRegistry]_vars

(***************************************************************************)
(* Vocabulary of the properties.                                           *)
(***************************************************************************)
RECURSIVE DeepEqual(_, _)
\* Structural equality of two values: same shape and same primitives,
\* whatever the identities of the objects.
DeepEqual(x, y) ==
    IF IsObject(x) /\ IsObject(y)
    THEN Keys(x) = Keys(y) /\ \A k \in Keys(x) : DeepEqual(x.f[k], y.f[k])
    ELSE ~IsObject(x) /\ ~IsObject(y) /\ x = y

\* The beforeUpdate invocations made so far: <<update, subscriber>>.
Invocations ==
    UNION {{<<o, i>> : i \in {j \in DOMAIN hooks[o] : hooks[o][j].promise # "notCalled"}} :
             o \in Ops}

HookOf(h) == hooks[h[1]][h[2]]

\* The invocations whose save succeeded, and the row each one inserted.
Stored == {h \in Invocations : HookOf(h).write = "done"}

RowOfHook(h) == store[HookOf(h).table][HookOf(h).rowId]

\* previous and incoming state of an update, as the host handed them over.
Previous(o) == ops[o].databaseEntity

IncomingOf(o) == ops[o].entity

Started(o) == ops[o].pc # "idle"

AllRows == UNION {{<<tb, n>> : n \in DOMAIN store[tb]} : tb \in Tables}

(***************************************************************************)
(* C1.  An update whose incoming state is structurally equal to the        *)
(* previous state, nested values that are equal but distinct objects       *)
(* included, makes every invocation return without a save and without an   *)
(* error, whether or not setup was called; the update being the only one,  *)
(* the history store stays as it was, empty.                               *)
(***************************************************************************)
C1_NoEntryForUnchangedRecord ==
    \A o \in Ops :
        (Started(o) /\ DeepEqual(IncomingOf(o), Previous(o))) =>
            /\ \A i \in DOMAIN hooks[o] :
                  /\ hooks[o][i].promise = "resolved"
                  /\ hooks[o][i].write = "none"
                  /\ hooks[o][i].saves = 0
            /\ ops[o].pc # "failed"
            /\ AllRows = {}

\* A committed update of a tracked record whose incoming state holds a nested
\* object equal to the previous one but not the same object, before any setup.
C1_Witness ==
    \E o \in Ops :
        /\ ops[o].pc = "committed"
        /\ DOMAIN hooks[o] # {}
        /\ config = Undef
        /\ DeepEqual(IncomingOf(o), Previous(o))
        /\ IsObject(Get(IncomingOf(o), "a"))
        /\ Keys(Get(IncomingOf(o), "a")) # {}
        /\ Get(IncomingOf(o), "a").ref # Get(Previous(o), "a").ref

(***************************************************************************)
(* C2.  For an update of a flat record (previous and incoming have the     *)
(* same fields, all of them numbers), the diff of the stored History Entry *)
(* has exactly the fields whose values differ, each with its incoming      *)
(* value.                                                                  *)
(***************************************************************************)
Flat(v) == IsObject(v) /\ \A k \in Keys(v) : v.f[k].t = "num"

C2_DiffMapsChangedFieldsToIncoming ==
    \A h \in Stored :
        LET inc == IncomingOf(h[1])
            prev == Previous(h[1])
            diff == RowOfHook(h).diff
        IN (Flat(inc) /\ Flat(prev) /\ Keys(inc) = Keys(prev)) =>
              /\ Keys(diff) = {k \in Keys(inc) : inc.f[k] # prev.f[k]}
              /\ \A k \in Keys(diff) : diff.f[k] = inc.f[k]

(***************************************************************************)
(* C3.  hydrate on the current state of a record and the History Entries   *)
(* recorded for it returns, for the entry of every committed update, a     *)
(* snapshot whose record fields (the id apart, which hydrate replaces) are *)
(* those the record held right after that update.                          *)
(***************************************************************************)
C3_HydrateReturnsStatesHeld ==
    \A rec \in Records :
        IsObject(db[rec]) =>
            LET history == HistoryOf(rec)
                out == hydrate(db[rec], history)
            IN \A n \in DOMAIN history :
                 \A h \in Stored :
                    (RowOfHook(h) = history[n] /\ ops[h[1]].pc = "committed") =>
                        \A k \in Keys(IncomingOf(h[1])) \ {"id"} :
                            out[n][k] = IncomingOf(h[1]).f[k]

(***************************************************************************)
(* C4.  As stated: hydrate returns one snapshot per History Entry, in      *)
(* order; the n-th is current extended with originId = current.id,         *)
(* overlaid with the diffs of the first n entries in order (the later diff *)
(* wins on a shared field), with id, historyDetails and createdAt those of *)
(* the n-th entry even when a diff holds one of these keys.                *)
(***************************************************************************)
\* The value of key k after the diffs of the first n entries were laid over
\* the fields of start.
Overlaid(start, history, n, k) ==
    LET setters == {j \in 1..n : k \in Keys(history[j].diff)}
        last == CHOOSE j \in setters : \A m \in setters : m <= j
    IN IF setters # {} THEN history[last].diff.f[k] ELSE start[k]

\* The last call of hydrate returned the snapshots that begin from start.
HydratedFrom(start) ==
    /\ Len(ret.out) = Len(ret.history)
    /\ \A n \in DOMAIN ret.history :
          /\ DOMAIN ret.out[n] =
                 DOMAIN start \cup {"id", "historyDetails", "createdAt"}
                    \cup UNION {Keys(ret.history[j].diff) : j \in 1..n}
          /\ \A k \in DOMAIN ret.out[n] :
                ret.out[n][k] =
                    IF k = "id" THEN ret.history[n].id
                    ELSE IF k = "historyDetails" THEN ret.history[n].historyDetails
                    ELSE IF k = "createdAt" THEN ret.history[n].createdAt
                    ELSE Overlaid(start, ret.history, n, k)

\* current with originId set to current.id.
WithOriginId(current) ==
    [k \in Keys(current) \cup {"originId"} |->
        IF k = "originId" THEN current.f["id"] ELSE current.f[k]]

\* current with originId added as current.id where current has no such field.
WithOriginIdAdded(current) ==
    [k \in Keys(current) \cup {"originId"} |->
        IF k \in Keys(current) THEN current.f[k] ELSE current.f["id"]]

C4_HydrateOverlaysDiffsInOrder ==
    ret.op = "hydrate" => HydratedFrom(WithOriginId(ret.current))

\* C4, amended: hydrate returns one snapshot per History Entry, in order; the
\* n-th is current, with originId = current.id added unless current has a
\* field originId of its own, overlaid with the diffs of the first n entries
\* in order (the later diff wins on a shared field), with id, historyDetails
\* and createdAt those of the n-th entry even when a diff holds one of these
\* keys.
C4_HydrateKeepsOwnOriginId ==
    ret.op = "hydrate" => HydratedFrom(WithOriginIdAdded(ret.current))

\* A current with an originId of its own and a history of two entries whose
\* diffs share a field with different values, the first diff holding the key
\* id as well.
C4_Witness ==
    /\ ret.op = "hydrate"
    /\ "originId" \in Keys(ret.current)
    /\ Len(ret.history) = 2
    /\ {"id", "a"} \subseteq Keys(ret.history[1].diff)
    /\ "a" \in Keys(ret.history[2].diff)
    /\ ret.history[1].diff.f["a"] # ret.history[2].diff.f["a"]
    /\ ret.out[1]["id"] # ret.history[1].diff.f["id"]
    /\ ret.out[2]["a"] = ret.history[2].diff.f["a"]
    /\ ret.out[2]["originId"] # ret.current.f["id"]

ArgName(x) == IF x \in Classes THEN x.name ELSE x

NameTaken(x) ==
    \E i \in DOMAIN entries :
        toLocaleLowerCase(entries[i].subscriber.listenTo.name) = toLocaleLowerCase(ArgName(x))

Quiescent == \A o \in Ops : ops[o].pc # "broadcast"
                              /\ \A i \in DOMAIN hooks[o] : hooks[o][i].write # "pending"

\* Every update so far met a subscriber, and setup had been called by then.
TrackedAndSetUp ==
    /\ \A o \in Ops : Started(o) => DOMAIN hooks[o] # {}
    /\ \A h \in Invocations : HookOf(h).promise = "rejected" => HookOf(h).write = "failed"

C7_OriginAndDetailsOfOwnUpdate ==
    \A h \in Stored :
        LET row == RowOfHook(h)
            data == ops[h[1]].data
        IN /\ row.origin = Get(Previous(h[1]), "id")
           /\ IF "historyDetails" \in Keys(data)
              THEN DeepEqual(row.historyDetails, data.f["historyDetails"])
              ELSE row.historyDetails = Null

\* Two entries of two updates of different records, one annotated, one not.
C7_Witness ==
    \E h, g \in Stored :
        /\ RowOfHook(h).origin # RowOfHook(g).origin
        /\ RowOfHook(h).historyDetails = Null
        /\ IsObject(RowOfHook(g).historyDetails)

(***************************************************************************)
(* C8.  When the save of a History Entry fails, the invocation rejects     *)
(* with the error of the save, after a single save, no row is stored for   *)
(* it, and the host does not commit the update but fails it with that      *)
(* error.                                                                  *)
(***************************************************************************)
C8_FailedSavePropagates ==
    \A h \in Invocations :
        HookOf(h).write = "failed" =>
            /\ HookOf(h).promise = "rejected"
            /\ HookOf(h).error = PersistenceError
            /\ HookOf(h).saves = 1
            /\ "rowId" \notin DOMAIN HookOf(h)
            /\ Cardinality(AllRows) = Cardinality(Stored)
            /\ ops[h[1]].pc \in {"broadcast", "failed"}
            /\ ops[h[1]].pc = "failed" => ops[h[1]].error = PersistenceError

\* An update reported failed with the error of its save, while another
\* update's entry is stored.
C8_Witness ==
    \E o \in Ops : /\ ops[o].pc = "failed"
                    /\ ops[o].error = PersistenceError
                    /\ Stored # {}

(***************************************************************************)
(* C9.  An invocation has not returned while its save is pending, and no   *)
(* update is committed or reported failed while a save of one of its       *)
(* invocations is pending.                                                 *)
(***************************************************************************)
C9_WriteSettlesBeforeReturn ==
    /\ \A h \in Invocations : HookOf(h).write = "pending" => HookOf(h).promise = "pending"
    /\ \A o \in Ops :
          ops[o].pc \in {"committed", "failed"}
              => \A i \in DOMAIN hooks[o] : hooks[o][i].write # "pending"

\* Two updates in flight at once: one is committed with its entry stored
\* while the save of the other is still pending.
C9_Witness ==
    \E o, p \in Ops :
        /\ ops[o].pc = "committed"
        /\ \E i \in DOMAIN hooks[o] : hooks[o][i].write = "done"
        /\ ops[p].pc = "broadcast"
        /\ \E i \in DOMAIN hooks[p] : hooks[p][i].write = "pending"

(***************************************************************************)
(* C10.  History Entries are append-only: a step leaves every stored row,  *)
(* with its id, origin, diff, historyDetails and createdAt, where it was.  *)
(***************************************************************************)
C10_AppendOnly ==
    [][\A tb \in Tables :
          /\ Len(store'[tb]) >= Len(store[tb])
          /\ \A n \in DOMAIN store[tb] : store'[tb][n] = store[tb][n]]_vars

\* hydrate was called on a history of two entries, which are still stored.
C10_Witness ==
    /\ ret # NoCall
    /\ ret.op = "hydrate"
    /\ Len(ret.history) = 2
    /\ \E tb \in Tables : Len(store[tb]) = 2

(***************************************************************************)
(* C11.  hydrate is pure and deterministic: a call leaves the object       *)
(* current, every History Entry of history and every diff as they were,    *)
(* leaves the history store and the registration table as they were, and a *)
(* second call with the same current and history returns snapshots         *)
(* structurally identical to those of the first.                           *)
(***************************************************************************)
\* The snapshots found at the addresses a run returned.
Snapshots(heap, refs) == [i \in DOMAIN refs |-> heap[refs[i]]]

C11_HydrateIsPure ==
    [][ret'.op = "hydrate" =>
          /\ LET args == ArgsHeap(ret'.current, ret'.history)
             IN \A at \in DOMAIN args : ret'.heap[at] = args[at]
          /\ store' = store
          /\ entries' = entries
          /\ Snapshots(ret'.heap, ret'.refs) = ret'.out
          /\ LET again == hydrateOnHeap(ret'.heap, Len(ret'.history))
             IN Snapshots(again.heap, again.refs) = ret'.out]_vars

\* hydrate was called on a tracked record with two stored History Entries of
\* non-empty diffs, and returned two objects of its own.
C11_Witness ==
    /\ ret.op = "hydrate"
    /\ Len(ret.refs) = 2
    /\ ret.refs[1] # ret.refs[2]
    /\ \A i \in 1..2 : ret.refs[i] \notin DOMAIN ArgsHeap(ret.current, ret.history)
    /\ \A i \in 1..2 : DOMAIN ret.heap[DiffAt(i)] # {}
    /\ Registered(User)
    /\ AllRows # {}

(***************************************************************************)
(* C12.  As stated, setup having been called: getHistoryRepository called  *)
(* with a registered record type, given as the class or as its name,       *)
(* returns a handle for the History Entry schema that the registration of  *)
(* that same type created, not for the schema of another type.             *)
(***************************************************************************)
\* The record types an argument of getHistoryRepository stands for.
TypesOfArg(x) == IF x \in Classes THEN {x} ELSE {c \in Classes : c.name = x}

C12_RegisteredTypeGetsOwnSchema ==
    (ret.op = "getHistoryRepository" /\ config # Undef) =>
        \A c \in TypesOfArg(ret.arg) :
            Registered(c) =>
                /\ "returns" \in DOMAIN ret.out
                /\ ret.out.returns.target.kind = "MyHistoryEntity"
                /\ ret.out.returns.target.origin = c

(***************************************************************************)
(* C13.  As stated, setup having been called and the save having           *)
(* succeeded: when a field is present in exactly one of the previous and   *)
(* the incoming state of an update, the invocation saves a History Entry   *)
(* and that field is a key of the diff of the stored entry.                *)
(***************************************************************************)
\* The fields that exactly one of the two states of an update has.
OneSided(o) ==
    (Keys(IncomingOf(o)) \ Keys(Previous(o))) \cup (Keys(Previous(o)) \ Keys(IncomingOf(o)))

C13_OneSidedFieldIsRecorded ==
    \A h \in Invocations :
        (IsObject(IncomingOf(h[1])) /\ IsObject(Previous(h[1]))) =>
            \A k \in OneSided(h[1]) :
                /\ HookOf(h).write = "none" => HookOf(h).promise = "rejected"
                /\ HookOf(h).write = "done" => k \in Keys(RowOfHook(h).diff)

(***************************************************************************)
(* C14.  When the event of an update carries no incoming state (absent, or *)
(* an object without fields), the invocation diffs against the empty       *)
(* record and raises no error of its own: it fails only with the error of  *)
(* a missing setup or of the save.  If the previous state has a field, it  *)
(* saves once (setup having been called) and, the save having succeeded,   *)
(* exactly one History Entry is stored, whose diff holds every field of    *)
(* the previous state; if the previous state is absent or empty as well,   *)
(* nothing is saved and the invocation returns normally.                   *)
(***************************************************************************)
C14_AbsentIncomingDiffsAgainstEmpty ==
    \A h \in Invocations :
        Keys(IncomingOf(h[1])) = {} =>
            /\ HookOf(h).promise = "rejected" =>
                  \/ HookOf(h).write = "failed" /\ HookOf(h).error = PersistenceError
                  \/ HookOf(h).write = "none" /\ HookOf(h).error = TypeErrorOfConfig
            /\ Keys(Previous(h[1])) = {} =>
                  /\ HookOf(h).promise = "resolved"
                  /\ HookOf(h).write = "none"
                  /\ HookOf(h).saves = 0
                  /\ AllRows = {}
            /\ Keys(Previous(h[1])) # {} =>
                  /\ HookOf(h).write = "none" =>
                        HookOf(h).promise = "rejected" /\ HookOf(h).saves = 0
                  /\ HookOf(h).write # "none" => HookOf(h).saves = 1
                  /\ Cardinality(AllRows) = IF HookOf(h).write = "done" THEN 1 ELSE 0
                  /\ HookOf(h).write = "done" =>
                        /\ Keys(Previous(h[1])) \subseteq Keys(RowOfHook(h).diff)
                        /\ \A k \in Keys(Previous(h[1])) :
                              DeepEqual(RowOfHook(h).diff.f[k], Previous(h[1]).f[k])

\* An update without incoming state of a row with a nested field was
\* committed and its History Entry is stored.
C14_Witness ==
    /\ ops[1].pc = "committed"
    /\ IncomingOf(1) = Undef
    /\ {"a", "b", "id"} \subseteq Keys(Previous(1))
    /\ IsObject(Previous(1).f["a"])
    /\ \E h \in Stored : h[1] = 1 /\ Keys(RowOfHook(h).diff) = {"a", "b", "id"}

\* An update with an incoming state without fields of a previous state
\* without fields was committed: nothing was saved.
C14_WitnessEmpty ==
    /\ ops[1].pc = "committed"
    /\ IsObject(IncomingOf(1)) /\ Keys(IncomingOf(1)) = {}
    /\ IsObject(Previous(1)) /\ Keys(Previous(1)) = {}
    /\ config # Undef

(***************************************************************************)
(* C15.  As stated: getEntities and getSubscribers return lists of equal   *)
(* length that hold exactly one History Entry schema and exactly one       *)
(* update hook for every tracked record type; the i-th hook listens to the *)
(* type of the i-th schema and writes to that type's history storage, the  *)
(* lower-cased name of the type followed by "_history".                    *)
(***************************************************************************)
C15_OneSchemaAndHookPerTrackedType ==
    /\ Len(getEntities) = Len(getSubscribers)
    /\ \A c \in Classes :
          Registered(c) =>
              /\ Cardinality({i \in DOMAIN getEntities : getEntities[i].origin = c}) = 1
              /\ Cardinality({i \in DOMAIN getSubscribers : getSubscribers[i].listenTo = c}) = 1
    /\ \A i \in DOMAIN getSubscribers :
          /\ getSubscribers[i].kind = "MyEntitySubscriber"
          /\ getEntities[i].kind = "MyHistoryEntity"
          /\ getSubscribers[i].listenTo = getEntities[i].origin
          /\ getSubscribers[i].historyEntityName =
                 toLocaleLowerCase(getSubscribers[i].listenTo.name) \o <<"_", "history">>
          /\ getEntities[i].table = getSubscribers[i].historyEntityName

(***************************************************************************)
(* C16.  The beforeUpdate hook only observes: a step of an invocation (its *)
(* call, the success or the failure of its save) leaves the registration   *)
(* table and the stored record as they were, and the event it was called   *)
(* with holds, after the invocation as before it, the incoming state, the  *)
(* previous state and the data the host handed over, whether the           *)
(* invocation saved nothing, saved an entry or failed.                     *)
(***************************************************************************)
C16_HookOnlyObserves ==
    [][hooks' # hooks =>
          /\ entries' = entries
          /\ db' = db
          /\ \A o \in Ops :
                /\ ops[o].pc # "idle" => ops'[o] = ops[o]
                /\ \A i \in DOMAIN hooks'[o] :
                      hooks'[o][i].promise # "notCalled" =>
                          /\ hooks'[o][i].event.entity = ops'[o].entity
                          /\ hooks'[o][i].event.databaseEntity = ops'[o].databaseEntity
                          /\ hooks'[o][i].event.queryRunner.data = ops'[o].data]_vars

\* One update's invocation stored its entry, another one's save failed, and
\* both updates have changed the record's field.
C16_Witness ==
    /\ \E h \in Stored : IncomingOf(h[1]) # Previous(h[1]) /\ HookOf(h).event.entity = IncomingOf(h[1])
    /\ \E h \in Invocations :
          /\ HookOf(h).write = "failed"
          /\ HookOf(h).event.databaseEntity = Previous(h[1])
    /\ Len(entries) = 1

====
